---- MODULE Spec2Model ----
(***************************************************************************)
(* Model of the Streamlit chat application app3.py: the session state, the *)
(* sidebar controls with the mental-model lock check, the two inferencers  *)
(* and the turn handler.                                                   *)
(*                                                                         *)
(* Numbers are fixed-point, in millionths (Unit = 1.0), so that the lock   *)
(* check's tolerance 1e-6 is one unit.  Python values are tagged records   *)
(* [t |-> tag, v |-> payload]; dicts are functions from key strings.       *)
(* Dict objects live in the heap objs and are named by their index, so     *)
(* that sharing between session_state.mm_values, the local mm_vals and the *)
(* log entries is visible.  Timestamps are left out.                       *)
(***************************************************************************)
EXTENDS Integers, Sequences, FiniteSets, TLC

(* ------------------------------ bounds -------------------------------- *)

MaxMessages == 4
MaxEdits == 2

(* --------------------------- Python values ---------------------------- *)

Unit == 1000000

Num(n) == [t |-> "num", v |-> n]
Bool(b) == [t |-> "bool", v |-> b]
Str(s) == [t |-> "str", v |-> s]
Null == [t |-> "null", v |-> 0]
List(s) == [t |-> "list", v |-> s]
Obj(f) == [t |-> "obj", v |-> f]
Invalid == [t |-> "invalid", v |-> 0]

Abs(n) == IF n < 0 THEN -n ELSE n

\* isinstance(x, (int, float)): bool is a subclass of int
IsNumber(x) == x.t \in {"num", "bool"}

\* float(x) for a number
AsFloat(x) == IF x.t = "bool" THEN (IF x.v THEN Unit ELSE 0) ELSE x.v

\* the strings float() parses, with their value
ParseFloat == [s \in {"0.7"} |-> 700000]

\* float(x) raises for None, containers and strings that are not numerals
CanFloat(x) == \/ IsNumber(x)
               \/ x.t = "str" /\ x.v \in DOMAIN ParseFloat

PyFloat(x) == IF IsNumber(x) THEN Num(AsFloat(x)) ELSE Num(ParseFloat[x.v])

\* bool(x): truthiness
PyBool(x) ==
  Bool(CASE x.t = "num" -> x.v /= 0
         [] x.t = "bool" -> x.v
         [] x.t = "str" -> x.v /= ""
         [] x.t = "list" -> Len(x.v) > 0
         [] x.t = "obj" -> DOMAIN x.v /= {}
         [] OTHER -> FALSE)

\* a == b
PyEq(a, b) ==
  IF IsNumber(a) /\ IsNumber(b) THEN AsFloat(a) = AsFloat(b)
  ELSE IF a.t /= b.t THEN FALSE
  ELSE a.v = b.v

\* str(x) as used in the f-strings
PyStr(x) ==
  CASE x.t = "str" -> x
    [] x.t = "bool" -> Str(IF x.v THEN "True" ELSE "False")
    [] x.t = "null" -> Str("None")
    [] OTHER -> Str(ToString(x.v))

(* ------------------------- the mental model --------------------------- *)

NumericKeys == {"user_certainty", "model_seen_as_expert", "validation_seeking",
                "objectivity_seeking", "empathy_expectation", "directness",
                "informativeness"}

Keys == NumericKeys \cup {"expects_correction", "assistant_role"}

Roles == {"Neutral assistant", "Expert", "Friend/peer", "Therapist-like listener"}

DEFAULT_MM ==
  [user_certainty |-> Num(500000),
   model_seen_as_expert |-> Num(800000),
   expects_correction |-> Bool(TRUE),
   validation_seeking |-> Num(500000),
   objectivity_seeking |-> Num(500000),
   empathy_expectation |-> Num(500000),
   directness |-> Num(500000),
   informativeness |-> Num(700000),
   assistant_role |-> Str("Neutral assistant")]

(* ---------------------- the external service ------------------------- *)

\* One call of client.responses.create either raises or returns a text.
\* A returned text is represented by what json.loads makes of it: parsed is
\* the Python value (None for null, a dict for an object, a list for an
\* array), or Invalid when json.loads raises JSONDecodeError.
Raised == [raised |-> TRUE, parsed |-> Invalid]
Text(doc) == [raised |-> FALSE, parsed |-> doc]

FullObject ==
  Obj([user_certainty |-> Num(900000),
       model_seen_as_expert |-> Num(300000),
       expects_correction |-> Bool(FALSE),
       validation_seeking |-> Num(200000),
       objectivity_seeking |-> Num(0),
       empathy_expectation |-> Num(Unit),
       directness |-> Num(600001),
       informativeness |-> Num(400000),
       assistant_role |-> Str("Expert")])

\* the outcomes of the mental-model call in a session
MMReplies ==
  {Raised,
   Text(FullObject),
   Text(Obj("user_certainty" :> Str("0.7"))),
   Text(Obj("directness" :> Num(1500000))),
   Text(Obj("expects_correction" :> Str("yes")))}

(* ----------------- infer_mental_model_with_llm ------------------------ *)

\* k in s for the strings of this model
SubstringOf(k, s) == <<k, s>> \in {<<"directness", "directness is high">>}

\* k in mm, for the values on which it does not raise
Contains(k, mm) ==
  CASE mm.t = "obj" -> k \in DOMAIN mm.v
    [] mm.t = "list" -> \E i \in 1..Len(mm.v) : PyEq(mm.v[i], Str(k))
    [] mm.t = "str" -> SubstringOf(k, mm.v)
    [] OTHER -> FALSE

infer_mental_model_with_llm_update(reply) ==
  IF reply.raised THEN DEFAULT_MM
  ELSE LET mm == reply.parsed IN
    IF mm.t /= "obj" THEN DEFAULT_MM
    ELSE [k \in Keys \cup DOMAIN mm.v |->
            IF k \in DOMAIN mm.v THEN mm.v[k] ELSE DEFAULT_MM[k]]

\* the dict returned for one outcome of the service call
infer_mental_model_with_llm(reply) ==
  IF reply.raised THEN DEFAULT_MM
  ELSE LET mm == reply.parsed IN
    IF mm.t = "invalid" THEN DEFAULT_MM
    \* k in mm raises TypeError
    ELSE IF mm.t \notin {"obj", "list", "str"} THEN DEFAULT_MM
    \* mm[k] raises TypeError
    ELSE IF mm.t /= "obj" /\ \E k \in Keys : Contains(k, mm) THEN DEFAULT_MM
    ELSE [k \in Keys |-> IF Contains(k, mm) THEN mm.v[k] ELSE DEFAULT_MM[k]]

(* -------------- infer_uncertain_assumptions_with_llm ------------------ *)

Min(a, b) == IF a < b THEN a ELSE b
Max(a, b) == IF a > b THEN a ELSE b

IntakeCap == 10

\* an entry the loop keeps (the others are skipped by continue)
HasBothKeys(item) ==
  item.t = "obj" /\ "assumption" \in DOMAIN item.v /\ "probability" \in DOMAIN item.v

CleanItem_unclamped(item) ==
  Obj([assumption |-> PyStr(item.v["assumption"]),
       probability |-> PyFloat(item.v["probability"]),
       evidence |-> IF "evidence" \in DOMAIN item.v
                    THEN PyStr(item.v["evidence"]) ELSE Str("")])

\* lines 162-169: the entry appended for an item with both keys
CleanItem(item) ==
  Obj([assumption |-> PyStr(item.v["assumption"]),
       probability |-> Num(Max(0, Min(Unit, PyFloat(item.v["probability"]).v))),
       evidence |-> IF "evidence" \in DOMAIN item.v
                    THEN PyStr(item.v["evidence"]) ELSE Str("")])

RECURSIVE CleanItems(_)
CleanItems(items) ==
  IF items = <<>> THEN <<>>
  ELSE IF HasBothKeys(Head(items))
       THEN <<CleanItem(Head(items))>> \o CleanItems(Tail(items))
       ELSE CleanItems(Tail(items))

NoAssumptions == Obj([assumptions |-> List(<<>>)])

infer_uncertain_assumptions_with_llm_none(reply) ==
  IF reply.raised THEN Null
  ELSE LET data == reply.parsed IN
    IF data.t = "invalid" THEN Null
    ELSE IF \/ data.t /= "obj"
            \/ "assumptions" \notin DOMAIN data.v
            \/ data.v["assumptions"].t /= "list"
         THEN Null
    ELSE LET all == data.v["assumptions"].v
             taken == SubSeq(all, 1, Min(IntakeCap, Len(all)))
         IN IF \E i \in 1..Len(taken) :
                 HasBothKeys(taken[i]) /\ ~CanFloat(taken[i].v["probability"])
            THEN Null
            ELSE Obj([assumptions |-> List(CleanItems(taken))])

\* the dict returned for one outcome of the service call
infer_uncertain_assumptions_with_llm(reply) ==
  IF reply.raised THEN NoAssumptions
  ELSE LET data == reply.parsed IN
    IF data.t = "invalid" THEN NoAssumptions
    ELSE IF \/ data.t /= "obj"
            \/ "assumptions" \notin DOMAIN data.v
            \/ data.v["assumptions"].t /= "list"
         THEN NoAssumptions
    ELSE LET all == data.v["assumptions"].v
             taken == SubSeq(all, 1, Min(IntakeCap, Len(all)))
         IN \* float(item["probability"]) raises inside the loop
            IF \E i \in 1..Len(taken) :
                 HasBothKeys(taken[i]) /\ ~CanFloat(taken[i].v["probability"])
            THEN NoAssumptions
            ELSE Obj([assumptions |-> List(CleanItems(taken))])

Entry(a, p) == Obj("assumption" :> Str(a) @@ "probability" :> p)

\* the outcomes of the assumptions call in a session
AssumptionReplies ==
  {Raised,
   Text(Obj("assumptions" :> List(<<Entry("in a hurry", Num(730000)),
                                    Entry("is a student", Num(1500000))>>)))}

(* ------------------------------ helpers ------------------------------- *)

\* build_history_text: one line per message, "User: ..." or "Assistant: ..."
build_history_text(msgs) ==
  [i \in 1..Len(msgs) |->
     [speaker |-> IF msgs[i].role = "user" THEN "User" ELSE "Assistant",
      content |-> msgs[i].content]]

\* format(x, ".2f"): hundredths, rounded; raises for str and None
CanFormat2f(x) == IsNumber(x)
Format2f(x) == (AsFloat(x) * 100 + Unit \div 2) \div Unit

\* build_mental_model_preamble raises when a numeric field cannot be formatted
PreambleRaises(mm) == \E k \in NumericKeys : ~CanFormat2f(mm[k])

build_mental_model_preamble(mm) ==
  [k \in Keys |-> IF k \in NumericKeys THEN Num(Format2f(mm[k])) ELSE PyStr(mm[k])]

(* ------------------------- sidebar controls --------------------------- *)

Tolerance == 1

\* st.sidebar.slider(label, 0.0, 1.0, float(x), 0.1) raises when float(x)
\* raises or the value lies outside [0.0, 1.0]
SliderRaises(x) == \/ ~CanFloat(x)
                   \/ PyFloat(x).v < 0
                   \/ PyFloat(x).v > Unit

\* [...].index(x) raises ValueError when x is not one of the four roles
RoleIndexRaises(x) == ~(x.t = "str" /\ x.v \in Roles)

\* the sidebar section raises before the lock check
RenderRaises(mm) == \/ \E k \in NumericKeys : SliderRaises(mm[k])
                    \/ RoleIndexRaises(mm["assistant_role"])

\* the value argument of each control
ControlDefaults(mm) ==
  [k \in Keys |-> IF k \in NumericKeys THEN PyFloat(mm[k])
                  ELSE IF k = "expects_correction" THEN PyBool(mm[k])
                  ELSE mm[k]]

\* What the controls return in a script run.  A control has no key, so its
\* identity includes its value argument: the value the user set is returned
\* while the argument is the one the control was shown with, and the argument
\* itself otherwise.
ControlValues(w, mm) ==
  LET d == ControlDefaults(mm)
  IN [k \in Keys |-> IF w[k].def = d[k] THEN w[k].val ELSE d[k]]

\* one iteration of the comparison loop of the lock check
FieldChanged(v, old) ==
  IF IsNumber(old) /\ IsNumber(v)
  THEN Abs(AsFloat(v) - AsFloat(old)) > Tolerance
  ELSE ~PyEq(v, old)

\* the flag changed after the loop
Changed(current_from_controls, mm) ==
  \E k \in Keys : FieldChanged(current_from_controls[k], mm[k])

(* ------------------------------- state -------------------------------- *)

VARIABLES
  \* st.session_state
  messages, mm_values, turn_index, turn_logs, mm_locked,
  assumptions_latest, assumptions_history,
  \* the dict objects created so far; mm_values, mm_vals and the field
  \* mental_model of a log entry are indices into objs
  objs,
  \* the page: the controls as last shown (value argument and returned
  \* value), whether they were disabled, whether the last script run got as
  \* far as the chat input, and the API key field
  widgets, disabled, rendered, api_key,
  \* the script run in progress: position, locals of the turn handler, the
  \* calls made to the external service and the exception that ended it
  pc, user_input, is_first_assistant_turn, mm_vals, mm_source,
  assumptions_json, convo_text, calls, exc,
  \* number of control edits made by the user
  edits

session == <<messages, mm_values, turn_index, turn_logs, mm_locked,
             assumptions_latest, assumptions_history>>
page == <<widgets, disabled, rendered, api_key>>
locals == <<user_input, is_first_assistant_turn, mm_vals, mm_source,
            assumptions_json, convo_text>>
vars == <<session, objs, page, pc, locals, calls, exc, edits>>

\* the inputs of a session
UserTexts == {"Tell me if I'm wrong about X"}
ReplyTexts == {"reply"}
ApiKeys == {"", "sk-1"}
EditChoices ==
  {<<"directness", Num(600000)>>,
   <<"expects_correction", Bool(TRUE)>>, <<"expects_correction", Bool(FALSE)>>,
   <<"assistant_role", Str("Friend/peer")>>}

NoLocals ==
  /\ user_input = ""
  /\ is_first_assistant_turn = FALSE
  /\ mm_vals = 0
  /\ mm_source = ""
  /\ assumptions_json = Null
  /\ convo_text = <<>>

\* the session, the page and the locals after the first script run
NewSession ==
  /\ messages = <<>>
  /\ objs = <<DEFAULT_MM>>
  /\ mm_values = 1
  /\ turn_index = 0
  /\ turn_logs = <<>>
  /\ mm_locked = FALSE
  /\ assumptions_latest = Null
  /\ assumptions_history = <<>>
  /\ widgets = [k \in Keys |-> [def |-> ControlDefaults(DEFAULT_MM)[k],
                                val |-> ControlDefaults(DEFAULT_MM)[k]]]
  /\ disabled = TRUE
  /\ rendered = TRUE
  /\ api_key = ""
  /\ NoLocals
  /\ exc = "none"
  /\ edits = 0

\* the state after the first script run of a new session
Init ==
  /\ NewSession
  /\ pc = "idle"
  /\ calls = <<>>

(* ----------------------- the sidebar of a run ------------------------- *)

\* lines 45-46 and 182: the lock flag a script run starts with; the key is
\* in st.session_state from the first run on, so it is not initialised again
SessionLocked_reinit == FALSE

SessionLocked == mm_locked

LockCheckRuns_unguarded == ~SessionLocked

\* line 214
LockCheckRuns == turn_index /= 0 /\ ~SessionLocked

LockStore_in_place(current_from_controls) ==
  [objs |-> [objs EXCEPT ![mm_values] = current_from_controls],
   mm_values |-> mm_values]

\* line 241: session_state.mm_values is bound to the new dict
LockStore(current_from_controls) ==
  [objs |-> Append(objs, current_from_controls),
   mm_values |-> Len(objs) + 1]

\* Lines 180-243 in a script run that finds the controls in state w: the
\* controls are created from mm_values, then the lock check runs.
Sidebar(w) ==
  LET first_turn == (turn_index = 0)
      mm == objs[mm_values]
  IN /\ disabled' = first_turn
     /\ IF RenderRaises(mm)
        THEN /\ exc' = "sidebar"
             /\ rendered' = FALSE
             /\ widgets' = w
             /\ mm_locked' = SessionLocked
             /\ UNCHANGED <<mm_values, objs>>
        ELSE LET current_from_controls == ControlValues(w, mm)
             IN /\ exc' = "none"
                /\ rendered' = TRUE
                /\ widgets' = [k \in Keys |-> [def |-> ControlDefaults(mm)[k],
                                               val |-> current_from_controls[k]]]
                /\ IF LockCheckRuns /\ Changed(current_from_controls, mm)
                   THEN /\ mm_locked' = TRUE
                        /\ objs' = LockStore(current_from_controls).objs
                        /\ mm_values' = LockStore(current_from_controls).mm_values
                   ELSE /\ mm_locked' = SessionLocked
                        /\ UNCHANGED <<mm_values, objs>>

\* a script run starts with fresh locals
FreshLocals ==
  /\ user_input' = ""
  /\ is_first_assistant_turn' = FALSE
  /\ mm_vals' = 0
  /\ mm_source' = ""
  /\ assumptions_json' = Null
  /\ convo_text' = <<>>
  /\ calls' = <<>>

(* --------------------------- user events ------------------------------ *)

\* the user moves a control: the script reruns without chat input
EditControl(k, v) ==
  /\ pc = "idle" /\ rendered /\ ~disabled
  /\ edits < MaxEdits
  /\ widgets[k].val /= v
  /\ edits' = edits + 1
  /\ Sidebar([widgets EXCEPT ![k].val = v])
  /\ FreshLocals
  /\ UNCHANGED <<messages, turn_index, turn_logs, assumptions_latest,
                 assumptions_history, api_key, pc>>

\* the user changes the API key field: the script reruns without chat input
EditApiKey(key) ==
  /\ pc = "idle" /\ rendered
  /\ api_key /= key
  /\ api_key' = key
  /\ Sidebar(widgets)
  /\ FreshLocals
  /\ UNCHANGED <<messages, turn_index, turn_logs, assumptions_latest,
                 assumptions_history, pc, edits>>

\* the user submits a chat message in a conversation of at most cap
\* messages: the script reruns, and reaches the chat input unless the
\* sidebar raised
SubmitWithin(text, cap) ==
  /\ pc = "idle" /\ rendered
  /\ Len(messages) + 2 <= cap
  /\ Sidebar(widgets)
  /\ user_input' = IF RenderRaises(objs[mm_values]) THEN "" ELSE text
  /\ is_first_assistant_turn' = FALSE
  /\ mm_vals' = 0
  /\ mm_source' = ""
  /\ assumptions_json' = Null
  /\ convo_text' = <<>>
  /\ calls' = <<>>
  /\ pc' = IF RenderRaises(objs[mm_values]) THEN "idle" ELSE "chat_input"
  /\ UNCHANGED <<messages, turn_index, turn_logs, assumptions_latest,
                 assumptions_history, api_key, edits>>

Submit(text) == SubmitWithin(text, MaxMessages)

(* -------------------------- the turn handler -------------------------- *)

HasCredential_unchecked == TRUE

\* line 350
HasCredential == api_key /= ""

\* lines 349-360: the credential check, then the user message is appended
ChatInput ==
  /\ pc = "chat_input"
  /\ IF ~HasCredential
     THEN /\ pc' = "idle"
          /\ UNCHANGED <<messages, is_first_assistant_turn>>
     ELSE /\ messages' = Append(messages, [role |-> "user", content |-> user_input])
          /\ is_first_assistant_turn' = (turn_index = 0)
          /\ pc' = "mental_model"
  /\ UNCHANGED <<mm_values, turn_index, turn_logs, mm_locked, assumptions_latest,
                 assumptions_history, objs, page, user_input, mm_vals, mm_source,
                 assumptions_json, convo_text, calls, exc, edits>>

ShouldInfer_always == TRUE

\* lines 363 and 368: the branches that call the inferencer
ShouldInfer == is_first_assistant_turn \/ ~mm_locked

SourceTag_no_first == IF mm_locked THEN "user_locked" ELSE "inferred_unlocked"

SourceTag_not_reused ==
  IF is_first_assistant_turn THEN "inferred_first_turn" ELSE "inferred_unlocked"

\* lines 366, 370 and 374
SourceTag ==
  IF is_first_assistant_turn THEN "inferred_first_turn"
  ELSE IF mm_locked THEN "user_locked" ELSE "inferred_unlocked"

MentalModelInput_transcript == List(build_history_text(messages))

\* lines 364 and 372: the text handed to the inferencer
MentalModelInput == Str(user_input)

\* lines 362-374 for the outcomes replies of the service call: infer on the
\* first turn or while unlocked, else reuse
MentalModelStepOn(replies) ==
  /\ pc = "mental_model"
  /\ IF ShouldInfer
     THEN \E reply \in replies :
            /\ calls' = Append(calls, [fn |-> "mental_model",
                                       input |-> MentalModelInput,
                                       reply |-> reply])
            /\ objs' = Append(objs, infer_mental_model_with_llm(reply))
            /\ mm_vals' = Len(objs) + 1
            /\ mm_values' = Len(objs) + 1
     ELSE /\ mm_vals' = mm_values
          /\ UNCHANGED <<calls, objs, mm_values>>
  /\ mm_source' = SourceTag
  /\ pc' = "assumptions"
  /\ UNCHANGED <<messages, turn_index, turn_logs, mm_locked, assumptions_latest,
                 assumptions_history, page, user_input, is_first_assistant_turn,
                 assumptions_json, convo_text, exc, edits>>

MentalModelStep == MentalModelStepOn(MMReplies)

TranscriptSoFar_before_message ==
  build_history_text(SubSeq(messages, 1, Len(messages) - 1))

\* line 377: the transcript, which holds the user message appended at line 356
TranscriptSoFar == build_history_text(messages)

HistoryIndex_uncounted == turn_index

\* line 385
HistoryIndex == turn_index + 1

\* lines 376-388 for the outcomes replies of the service call: assumptions
\* from the transcript, stored and added to the history
AssumptionsStepOn(replies) ==
  /\ pc = "assumptions"
  /\ convo_text' = TranscriptSoFar
  /\ \E reply \in replies :
       /\ calls' = Append(calls, [fn |-> "assumptions",
                                  input |-> List(TranscriptSoFar),
                                  reply |-> reply])
       /\ assumptions_json' = infer_uncertain_assumptions_with_llm(reply)
  /\ assumptions_latest' = assumptions_json'
  /\ assumptions_history' = Append(assumptions_history,
                                   [turn_index |-> HistoryIndex,
                                    assumptions |-> assumptions_json'])
  /\ pc' = "respond"
  /\ UNCHANGED <<messages, mm_values, turn_index, turn_logs, mm_locked, objs, page,
                 user_input, is_first_assistant_turn, mm_vals, mm_source, exc, edits>>

AssumptionsStep == AssumptionsStepOn(AssumptionReplies)

combined_prompt == [preamble |-> build_mental_model_preamble(objs[mm_vals]),
                    convo |-> convo_text]

log_turn_stale(index, assistant_message) ==
  [turn_index |-> Len(turn_logs),
   mm_locked |-> mm_locked,
   mental_model |-> mm_vals,
   mental_model_source |-> mm_source,
   assumptions |-> assumptions_json,
   user_message |-> user_input,
   assistant_message |-> assistant_message,
   combined_prompt |-> combined_prompt,
   conversation_so_far |-> Append(messages, [role |-> "assistant",
                                             content |-> assistant_message])]

\* log_turn, called with the incremented turn index
log_turn(index, assistant_message) ==
  [turn_index |-> index,
   mm_locked |-> mm_locked,
   mental_model |-> mm_vals,
   mental_model_source |-> mm_source,
   assumptions |-> assumptions_json,
   user_message |-> user_input,
   assistant_message |-> assistant_message,
   combined_prompt |-> combined_prompt,
   conversation_so_far |-> Append(messages, [role |-> "assistant",
                                             content |-> assistant_message])]

\* line 391 raises while formatting the preamble: the run ends there
PromptRaises ==
  /\ pc = "respond"
  /\ PreambleRaises(objs[mm_vals])
  /\ exc' = "preamble"
  /\ pc' = "idle"
  /\ UNCHANGED <<session, objs, page, locals, calls, edits>>

ResponseRaises_counted ==
  /\ pc = "respond"
  /\ ~PreambleRaises(objs[mm_vals])
  /\ calls' = Append(calls, [fn |-> "response", input |-> Obj(combined_prompt),
                             reply |-> Raised])
  /\ turn_index' = turn_index + 1
  /\ exc' = "response"
  /\ pc' = "idle"
  /\ UNCHANGED <<messages, mm_values, turn_logs, mm_locked, assumptions_latest,
                 assumptions_history, objs, page, locals, edits>>

\* lines 401-405 raise: the run ends there
ResponseRaises ==
  /\ pc = "respond"
  /\ ~PreambleRaises(objs[mm_vals])
  /\ calls' = Append(calls, [fn |-> "response", input |-> Obj(combined_prompt),
                             reply |-> Raised])
  /\ exc' = "response"
  /\ pc' = "idle"
  /\ UNCHANGED <<session, objs, page, locals, edits>>

\* lines 401-425: the reply is appended, the turn counted and logged
ResponseReturns(assistant_reply) ==
  /\ pc = "respond"
  /\ ~PreambleRaises(objs[mm_vals])
  /\ calls' = Append(calls, [fn |-> "response", input |-> Obj(combined_prompt),
                             reply |-> Text(Str(assistant_reply))])
  /\ messages' = Append(messages, [role |-> "assistant", content |-> assistant_reply])
  /\ turn_index' = turn_index + 1
  /\ turn_logs' = Append(turn_logs, log_turn(turn_index + 1, assistant_reply))
  /\ pc' = IF is_first_assistant_turn THEN "rerun" ELSE "idle"
  /\ UNCHANGED <<mm_values, mm_locked, assumptions_latest, assumptions_history,
                 objs, page, locals, exc, edits>>

\* st.rerun() after the first turn: a script run without chat input
Rerun ==
  /\ pc = "rerun"
  /\ Sidebar(widgets)
  /\ FreshLocals
  /\ pc' = "idle"
  /\ UNCHANGED <<messages, turn_index, turn_logs, assumptions_latest,
                 assumptions_history, api_key, edits>>

Next ==
  \/ \E c \in EditChoices : EditControl(c[1], c[2])
  \/ \E key \in ApiKeys : EditApiKey(key)
  \/ \E text \in UserTexts : Submit(text)
  \/ ChatInput
  \/ MentalModelStep
  \/ AssumptionsStep
  \/ PromptRaises
  \/ ResponseRaises
  \/ \E r \in ReplyTexts : ResponseReturns(r)
  \/ Rerun

Spec == Init /\ [][Next]_vars

(* ------------- the mental-model inferencer on its own ----------------- *)

\* the outcomes of the service call the inferencer is applied to: the call
\* raising, a text that is not JSON, JSON that is not an object, and the
\* objects over GenKeys with values of several JSON types
GenKeys == {"directness", "expects_correction", "assistant_role", "mood"}
GenValues == {Num(600000), Str("yes"), Null}
GenObjects == UNION {[K -> GenValues] : K \in SUBSET GenKeys}

InferReplies ==
  {Raised, Text(Invalid), Text(Null), Text(Num(3 * Unit)), Text(Bool(TRUE)),
   Text(Str("hello")), Text(Str("directness is high")),
   Text(List(<<>>)), Text(List(<<Num(Unit)>>)), Text(List(<<Str("directness")>>)),
   Text(FullObject)}
  \cup {Text(Obj(f)) : f \in GenObjects}

InitInfer ==
  /\ NewSession
  /\ pc = "infer"
  /\ \E reply \in InferReplies :
       calls = <<[fn |-> "mental_model", input |-> Str(""), reply |-> reply]>>

\* one application of infer_mental_model_with_llm to the drawn outcome
InferStep ==
  /\ pc = "infer"
  /\ objs' = Append(objs, infer_mental_model_with_llm(calls[1].reply))
  /\ mm_vals' = Len(objs) + 1
  /\ pc' = "inferred"
  /\ UNCHANGED <<session, page, user_input, is_first_assistant_turn, mm_source,
                 assumptions_json, convo_text, calls, exc, edits>>

NextInfer == InferStep

SpecInfer == InitInfer /\ [][NextInfer]_vars

(* ------------ the assumption inferencer in a first turn --------------- *)

\* the longest list of ItemChoices entries the service is made to return
MaxItems == 2

\* entries of the "assumptions" list: in range, above 1, below 0, without
\* "probability", without "assumption", not an object, and with a
\* probability float() does not accept
ItemChoices ==
  {Entry("in a hurry", Num(730000)),
   Entry("is a student", Num(1500000)),
   Entry("wants detail", Num(-300000)),
   Obj("assumption" :> Str("has a deadline")),
   Obj("probability" :> Num(400000)),
   Str("is an expert"),
   Entry("is unsure", Str("high"))}

ItemLists == UNION {[1..n -> ItemChoices] : n \in 0..MaxItems}

\* IntakeCap entries, in range, above 1 and below 0 in turn, and one more
LongList(last) ==
  [i \in 1..IntakeCap |->
     CASE i % 3 = 1 -> Entry("in a hurry", Num(730000))
       [] i % 3 = 2 -> Entry("is a student", Num(1500000))
       [] OTHER -> Entry("wants detail", Num(-300000))] \o <<last>>

\* the outcomes of the assumptions call the turn is run on: the call
\* raising, a text that is not JSON, JSON that is not an object, an object
\* without "assumptions" or with one that is not a list, and lists
AssumeReplies ==
  {Raised, Text(Invalid), Text(Null), Text(Num(3 * Unit)), Text(List(<<>>)),
   Text(Obj("items" :> List(<<>>))),
   Text(Obj("assumptions" :> Str("none"))),
   Text(Obj("assumptions" :> Null))}
  \cup {Text(Obj("assumptions" :> List(l))) : l \in ItemLists}
  \cup {Text(Obj("assumptions" :> List(LongList(last)))) :
          last \in {Entry("is a student", Num(1500000)),
                    Entry("is unsure", Str("high"))}}

\* the first turn of a new session at line 376: the key is entered, the
\* message appended and the mental-model call has raised
InitAssume ==
  /\ \E text \in UserTexts :
       /\ messages = <<[role |-> "user", content |-> text]>>
       /\ user_input = text
       /\ calls = <<[fn |-> "mental_model", input |-> Str(text), reply |-> Raised]>>
  /\ objs = <<DEFAULT_MM, DEFAULT_MM>>
  /\ mm_values = 2
  /\ turn_index = 0
  /\ turn_logs = <<>>
  /\ mm_locked = FALSE
  /\ assumptions_latest = Null
  /\ assumptions_history = <<>>
  /\ widgets = [k \in Keys |-> [def |-> ControlDefaults(DEFAULT_MM)[k],
                                val |-> ControlDefaults(DEFAULT_MM)[k]]]
  /\ disabled = TRUE
  /\ rendered = TRUE
  /\ api_key = "sk-1"
  /\ is_first_assistant_turn = TRUE
  /\ mm_vals = 2
  /\ mm_source = "inferred_first_turn"
  /\ assumptions_json = Null
  /\ convo_text = <<>>
  /\ exc = "none"
  /\ edits = 0
  /\ pc = "assumptions"

\* the rest of the turn, with the assumptions call drawn from AssumeReplies
NextAssume ==
  \/ AssumptionsStepOn(AssumeReplies)
  \/ ResponseRaises
  \/ \E r \in ReplyTexts : ResponseReturns(r)
  \/ Rerun

SpecAssume == InitAssume /\ [][NextAssume]_vars

(* ------------------- a session of three turns ------------------------ *)

\* length of the conversation in the longer session
MaxLongMessages == 6

\* the outcomes of the mental-model call and of the assumptions call in the
\* longer session
LongMMReplies == {Raised, Text(FullObject)}
LongAssumptionReplies == {Raised}

NextLong ==
  \/ \E c \in EditChoices : EditControl(c[1], c[2])
  \/ \E key \in ApiKeys : EditApiKey(key)
  \/ \E text \in UserTexts : SubmitWithin(text, MaxLongMessages)
  \/ ChatInput
  \/ MentalModelStepOn(LongMMReplies)
  \/ AssumptionsStepOn(LongAssumptionReplies)
  \/ ResponseRaises
  \/ \E r \in ReplyTexts : ResponseReturns(r)
  \/ Rerun

SpecLong == Init /\ [][NextLong]_vars

(* ------------------------------ claims -------------------------------- *)

\* C1: once session_state.mm_locked is true it is true in every later state;
\* no step of a script run (sidebar, credential check, turn steps, failures)
\* sets it back to false.
LockedIsTerminal == [][mm_locked => mm_locked']_vars

\* a turn was completed and logged while the lock was on, and the lock is on
LockedTurnLogged ==
  /\ mm_locked
  /\ \E i \in 1..Len(turn_logs) : turn_logs[i].mm_locked

\* a step that runs the sidebar: every script run starts from the idle page
\* or from st.rerun()
RenderCycle == pc \in {"idle", "rerun"}

\* the lock transition happens in this step
LockFires == ~mm_locked /\ mm_locked'

\* the value a control returned in the run that just ended
ControlShown(k) == widgets'[k].val

\* the number a stored numeric field stands for, as the control shows it
ShownNumber(x) == PyFloat(x).v

\* a control differs from the stored value: by more than the tolerance for a
\* numeric field, by inequality for the checkbox and the role
ControlDiffers(k) ==
  IF k \in NumericKeys
  THEN Abs(ControlShown(k).v - ShownNumber(objs[mm_values][k])) > Tolerance
  ELSE ~PyEq(ControlShown(k), objs[mm_values][k])

\* C2: in a render cycle the lock fires exactly when turn_index > 0, the model
\* is unlocked and some control differs from the stored mm_values (beyond
\* 1e-6 for numeric fields, unequal for the boolean and the role); when it
\* fires, mm_values becomes the values of the nine controls.
LockFiresExactlyOnDifference ==
  [][RenderCycle /\ rendered' =>
       /\ LockFires <=> /\ turn_index > 0
                        /\ ~mm_locked
                        /\ \E k \in Keys : ControlDiffers(k)
       /\ LockFires => objs'[mm_values'] = [k \in Keys |-> ControlShown(k)]]_vars

\* every control returned the value it was initialised with from mm_values,
\* and the step is not a control edit
NoUserEdit ==
  /\ edits' = edits
  /\ \A k \in Keys : ControlShown(k) = ControlDefaults(objs[mm_values])[k]

\* C3: a render cycle after the first turn in which the user has edited no
\* control since mm_values was written leaves mm_locked false, whatever the
\* inferencer stored in mm_values.
LockOnlyOnUserEdit ==
  [][RenderCycle /\ rendered' /\ turn_index > 0 /\ ~mm_locked /\ NoUserEdit
       => ~mm_locked']_vars

Last(q) == q[Len(q)]

\* C4: after the lock has fired the stored mental model is frozen at the
\* values of the controls at lock time: no later step changes mm_values or
\* the object it names, and a turn run while locked makes no mental-model
\* call, takes mm_values for the prompt and is logged as user_locked.
LockedModelFrozen ==
  /\ [][LockFires => objs'[mm_values'] = [k \in Keys |-> ControlShown(k)]]_vars
  /\ [][mm_locked => /\ mm_values' = mm_values
                     /\ objs'[mm_values] = objs[mm_values]]_vars
  /\ [](mm_locked /\ pc \in {"assumptions", "respond"} =>
          /\ mm_vals = mm_values
          /\ mm_source = "user_locked"
          /\ \A i \in 1..Len(calls) : calls[i].fn /= "mental_model")
  /\ [][mm_locked /\ pc = "respond" /\ Len(calls') > Len(calls) =>
          Last(calls').input.v.preamble =
            build_mental_model_preamble(objs[mm_values])]_vars
  /\ [](\A i \in 1..Len(turn_logs) :
          turn_logs[i].mm_locked =>
            /\ turn_logs[i].mental_model_source = "user_locked"
            /\ turn_logs[i].mental_model = mm_values
            /\ turn_logs[i].combined_prompt.preamble =
                 build_mental_model_preamble(objs[mm_values]))

\* a turn ran after a user edit locked a model that differs from the default
LockedTurnReusedModel ==
  /\ edits > 0
  /\ objs[mm_values] /= DEFAULT_MM
  /\ \E i \in 1..Len(turn_logs) :
       /\ turn_logs[i].mental_model_source = "user_locked"
       /\ turn_logs[i].mental_model = mm_values

\* C5: on a turn after the first while unlocked, the inferencer is called with
\* the text of that user message alone, mm_values is set to a fresh object
\* holding the inferencer's result, no existing object is modified, and the
\* source tag is inferred_unlocked.
UnlockedTurnReinfers ==
  [][pc = "mental_model" /\ ~is_first_assistant_turn /\ ~mm_locked =>
       /\ Len(calls') = Len(calls) + 1
       /\ Last(calls').fn = "mental_model"
       /\ Last(calls').input = Str(Last(messages).content)
       /\ Last(messages).role = "user"
       /\ mm_values' \notin 1..Len(objs)
       /\ objs'[mm_values'] = infer_mental_model_with_llm(Last(calls').reply)
       /\ \A i \in 1..Len(objs) : objs'[i] = objs[i]
       /\ mm_source' = "inferred_unlocked"]_vars

\* an unlocked turn after the first has replaced the model by a different one
UnlockedReinferred ==
  /\ pc = "assumptions"
  /\ mm_source = "inferred_unlocked"
  /\ Len(messages) = 3
  /\ objs[mm_values] /= objs[Last(turn_logs).mental_model]

\* C6: a turn handled at turn_index = 0 with a credential calls the
\* mental-model inferencer, tags the model inferred_first_turn and infers
\* assumptions over the transcript, which for the first message of the
\* session is that one message; when the turn completes the log has exactly
\* one entry, with turn_index 1.
FirstTurnInfersAndLogsOne ==
  /\ [](is_first_assistant_turn /\ pc \in {"assumptions", "respond"} =>
          /\ mm_source = "inferred_first_turn"
          /\ Len(calls) >= 1 /\ calls[1].fn = "mental_model"
          /\ mm_values = mm_vals)
  /\ [](is_first_assistant_turn /\ pc = "respond" =>
          /\ Len(calls) = 2 /\ calls[2].fn = "assumptions"
          /\ calls[2].input = List(build_history_text(messages))
          /\ Len(messages) = 1 =>
               calls[2].input.v = <<[speaker |-> "User", content |-> user_input]>>)
  /\ [][is_first_assistant_turn /\ pc = "respond" /\ turn_index' /= turn_index =>
          /\ Len(turn_logs') = 1
          /\ turn_logs'[1].turn_index = 1
          /\ turn_logs'[1].mental_model_source = "inferred_first_turn"]_vars

\* the first message of the session was answered and logged
FirstTurnCompleted ==
  /\ pc = "rerun"
  /\ Len(messages) = 2
  /\ Len(turn_logs) = 1

\* C7: handling a message submitted with no API key makes no external call
\* and changes nothing in the session state.
NoKeyNoMutation ==
  [][pc = "chat_input" /\ api_key = "" =>
       /\ UNCHANGED session
       /\ UNCHANGED <<objs, calls>>
       /\ calls = <<>>
       /\ pc' = "idle"]_vars

\* after a completed turn, a message was submitted without a key and dropped
NoKeyTurnAborted ==
  /\ pc = "idle"
  /\ api_key = ""
  /\ user_input /= ""
  /\ turn_index > 0

\* C8: when the response call raises, nothing is rolled back: the user
\* message is the last message, the inferred mm_values (when inference ran),
\* assumptions_latest and the new assumptions_history entry stay, turn_index
\* is not incremented, no assistant message and no log entry is added.
NoRollbackOnResponseFailure ==
  [][pc = "respond" /\ exc' = "response" =>
       /\ messages' = messages
       /\ Last(messages) = [role |-> "user", content |-> user_input]
       /\ mm_values' = mm_values
       /\ objs'[mm_values'] = objs[mm_values]
       /\ mm_source /= "user_locked" =>
            /\ mm_values = mm_vals
            /\ objs[mm_values] = infer_mental_model_with_llm(calls[1].reply)
       /\ assumptions_latest' = assumptions_json
       /\ assumptions_history' = assumptions_history
       /\ Last(assumptions_history) = [turn_index |-> turn_index + 1,
                                       assumptions |-> assumptions_json]
       /\ turn_index' = turn_index
       /\ turn_logs' = turn_logs]_vars

\* the response call failed after a re-inference changed the stored model
ResponseFailedAfterInference ==
  /\ pc = "idle"
  /\ exc = "response"
  /\ mm_source = "inferred_unlocked"
  /\ objs[mm_values] /= objs[Last(turn_logs).mental_model]
  /\ assumptions_latest /= NoAssumptions

\* C9: the stored mental model always has its seven numeric fields within
\* [0,1], expects_correction a boolean and assistant_role one of the four
\* roles.
StoredModelWellFormed ==
  LET mm == objs[mm_values]
  IN /\ \A k \in NumericKeys : /\ mm[k].t = "num"
                               /\ mm[k].v >= 0
                               /\ mm[k].v <= Unit
     /\ mm["expects_correction"].t = "bool"
     /\ mm["assistant_role"].t = "str"
     /\ mm["assistant_role"].v \in Roles

\* C10: the inferencer returns the full default when the call raises, the
\* text is not JSON or the JSON is not an object; for an object it returns a
\* dict with exactly the nine schema keys, each from the response when
\* present and from the default otherwise, without any other key.
InferencerAlwaysReturnsSchemaDict ==
  pc = "inferred" =>
    LET reply == calls[1].reply
        cleaned == objs[mm_vals]
    IN /\ reply.raised \/ reply.parsed.t /= "obj" => cleaned = DEFAULT_MM
       /\ ~reply.raised /\ reply.parsed.t = "obj" =>
            /\ DOMAIN cleaned = Keys
            /\ \A k \in Keys :
                 cleaned[k] = IF k \in DOMAIN reply.parsed.v
                              THEN reply.parsed.v[k] ELSE DEFAULT_MM[k]

\* the inferencer was applied to an object with a schema key and a foreign key
InferredFromPartialObject ==
  /\ pc = "inferred"
  /\ ~calls[1].reply.raised
  /\ calls[1].reply.parsed.t = "obj"
  /\ {"directness", "mood"} \subseteq DOMAIN calls[1].reply.parsed.v
  /\ "expects_correction" \notin DOMAIN calls[1].reply.parsed.v
  /\ objs[mm_vals]["directness"] /= DEFAULT_MM["directness"]

\* the outcome of the assumptions call of the script run, once it is made
AssumptionsReply == calls[2].reply
AssumptionsCalled == Len(calls) >= 2 /\ calls[2].fn = "assumptions"

\* the reply is a JSON object whose "assumptions" is a list
WellShaped(reply) ==
  /\ ~reply.raised
  /\ reply.parsed.t = "obj"
  /\ "assumptions" \in DOMAIN reply.parsed.v
  /\ reply.parsed.v["assumptions"].t = "list"

\* the entries of the reply the inferencer takes in
TakenIn(reply) ==
  LET given == reply.parsed.v["assumptions"].v
  IN SubSeq(given, 1, IF Len(given) < 10 THEN Len(given) ELSE 10)

\* the list the inferencer returned
Returned == assumptions_json.v["assumptions"].v

\* C11: for every outcome of the service call the list returned by the
\* Assumption Inferencer has at most 10 entries and every probability in it
\* lies in [0, 1]; the returned entries are those of the taken-in entries
\* carrying both keys, and a source probability above 1 is returned as 1,
\* one below 0 as 0, one in range unchanged.
ProbabilitiesCappedAndClamped ==
  AssumptionsCalled =>
    /\ Len(Returned) <= 10
    /\ \A i \in 1..Len(Returned) :
         /\ Returned[i].v["probability"].t = "num"
         /\ Returned[i].v["probability"].v >= 0
         /\ Returned[i].v["probability"].v <= Unit
    /\ Returned /= <<>> =>
         LET kept == SelectSeq(TakenIn(AssumptionsReply), HasBothKeys)
         IN /\ Len(Returned) = Len(kept)
            /\ \A i \in 1..Len(kept) :
                 LET src == kept[i].v["probability"].v
                     p == Returned[i].v["probability"].v
                 IN /\ src > Unit => p = Unit
                    /\ src < 0 => p = 0
                    /\ (src >= 0 /\ src <= Unit) => p = src

\* the service returned more than 10 entries, with probabilities in range,
\* above 1 and below 0: 10 are returned, clamped
ElevenEntriesCappedAndClamped ==
  /\ AssumptionsCalled
  /\ WellShaped(AssumptionsReply)
  /\ Len(AssumptionsReply.parsed.v["assumptions"].v) = 11
  /\ Len(Returned) = 10
  /\ Returned[1].v["probability"] = Num(730000)
  /\ Returned[2].v["probability"] = Num(Unit)
  /\ Returned[3].v["probability"] = Num(0)

\* an entry the claim calls valid: an object with an assumption string and
\* a numeric probability
ValidEntry(item) ==
  /\ item.t = "obj"
  /\ "assumption" \in DOMAIN item.v
  /\ item.v["assumption"].t = "str"
  /\ "probability" \in DOMAIN item.v
  /\ item.v["probability"].t = "num"

\* C12: an entry without an assumption string or a numeric probability is
\* dropped on its own: the returned list consists of exactly the valid
\* entries among those taken in, in their order, whatever the other entries
\* are.
InvalidEntriesDroppedOneByOne ==
  (AssumptionsCalled /\ WellShaped(AssumptionsReply)) =>
    LET valid == SelectSeq(TakenIn(AssumptionsReply), ValidEntry)
    IN /\ Len(Returned) = Len(valid)
       /\ \A i \in 1..Len(valid) :
            Returned[i].v["assumption"] = valid[i].v["assumption"]

\* C13: the Assumption Inferencer never raises: when the service call
\* fails, the text is not JSON, the JSON is not an object, "assumptions" is
\* missing or is not a list, it returns the empty list, which is stored;
\* the assumption step always hands over to prompt composition, and the
\* response call is then made with a prompt over the full transcript.
AssumptionFailureGivesEmptyList ==
  /\ [](AssumptionsCalled /\ ~WellShaped(AssumptionsReply)
          => /\ assumptions_json = NoAssumptions
             /\ assumptions_latest = NoAssumptions)
  /\ [][pc = "assumptions" => pc' = "respond" /\ exc' = "none"]_vars
  /\ [][(pc = "respond" /\ ~WellShaped(AssumptionsReply))
          => /\ Len(calls') = 3
             /\ calls'[3].fn = "response"
             /\ calls'[3].input.v.convo = build_history_text(messages)]_vars

\* the service returned an object without "assumptions" and the response
\* call of that turn was made
ResponseCalledAfterMissingKey ==
  /\ Len(calls) = 3
  /\ AssumptionsReply = Text(Obj("items" :> List(<<>>)))
  /\ calls[3].fn = "response"
  /\ assumptions_latest = NoAssumptions

\* C14: the turn log is append-only and its entries are immutable
\* snapshots: a step adds at most one entry, the step that counts a turn
\* adds exactly one, and no step changes an entry written earlier, the dict
\* behind its mental_model and its conversation_so_far included.
TurnLogAppendOnly ==
  [][/\ Len(turn_logs') \in {Len(turn_logs), Len(turn_logs) + 1}
     /\ (turn_index' /= turn_index) => Len(turn_logs') = Len(turn_logs) + 1
     /\ \A i \in 1..Len(turn_logs) :
          /\ turn_logs'[i] = turn_logs[i]
          /\ objs'[turn_logs'[i].mental_model] = objs[turn_logs[i].mental_model]]_vars

\* the lock fired after a turn was logged with the dict mm_values then
\* referred to: the settings now differ from the logged mental model
LockedAfterLoggedTurn ==
  /\ mm_locked
  /\ \E i \in 1..Len(turn_logs) :
       /\ ~turn_logs[i].mm_locked
       /\ turn_logs[i].mental_model /= mm_values
       /\ objs[turn_logs[i].mental_model] /= objs[mm_values]
       /\ Len(messages) >= Len(turn_logs[i].conversation_so_far)

\* position of a service call in a turn
StepRank(fn) == CASE fn = "mental_model" -> 1 [] fn = "assumptions" -> 2 [] OTHER -> 3

\* C15: in a turn that passed the credential check the steps run in the
\* order mental-model step, assumption inference, response generation, log
\* append: the calls of a script run are in that order, each made at most
\* once, and a response call follows an assumptions call; the assumption
\* step starts with the mental-model step finished and calls the
\* inferencer once, on the transcript ending with the current user message;
\* the response call is made with assumptions_latest and
\* assumptions_history already updated; the log entry is appended by the
\* step in which the response call returns.
TurnStepsInOrder ==
  /\ [](/\ \A i, j \in 1..Len(calls) :
             i < j => StepRank(calls[i].fn) < StepRank(calls[j].fn)
        /\ \A j \in 1..Len(calls) :
             calls[j].fn = "response" => j > 1 /\ calls[j - 1].fn = "assumptions"
        /\ pc = "assumptions" =>
             /\ mm_source /= ""
             /\ mm_vals \in 1..Len(objs)
             /\ \A j \in 1..Len(calls) : calls[j].fn = "mental_model")
  /\ [][pc = "assumptions" =>
          /\ Len(calls') = Len(calls) + 1
          /\ Last(calls').fn = "assumptions"
          /\ Last(calls').input = List(build_history_text(messages))
          /\ Last(messages) = [role |-> "user", content |-> user_input]]_vars
  /\ [][(Len(calls') > Len(calls) /\ Last(calls').fn = "response") =>
          /\ assumptions_json.t = "obj"
          /\ assumptions_latest = assumptions_json
          /\ Last(assumptions_history) = [turn_index |-> turn_index + 1,
                                          assumptions |-> assumptions_json]]_vars
  /\ [][turn_logs' /= turn_logs =>
          /\ Len(calls') > Len(calls)
          /\ Last(calls').fn = "response"
          /\ ~Last(calls').reply.raised]_vars

\* a turn ran all its steps: three calls, the last one returned and the
\* turn is logged
AllStepsRan ==
  /\ Len(calls) = 3
  /\ calls[3].fn = "response"
  /\ ~calls[3].reply.raised
  /\ Len(turn_logs) >= 1
  /\ Last(turn_logs).assumptions = assumptions_latest

\* C16: while turn_index is 0 the controls are disabled and the lock check
\* is skipped, so the lock is never on with turn_index 0: mm_locked implies
\* turn_index >= 1, also after first-turn attempts that stored an inferred
\* mental model and then failed.
NoLockBeforeFirstTurn ==
  /\ mm_locked => turn_index >= 1
  /\ turn_index = 0 => disabled

\* a first-turn attempt stored an inferred model whose expects_correction is
\* not a bool and failed; a later script run showed the controls, which
\* differ from the stored model, and did not lock
FailedFirstTurnThenRender ==
  /\ turn_index = 0
  /\ Len(messages) >= 1
  /\ objs[mm_values].expects_correction.t = "str"
  /\ pc = "idle" /\ rendered /\ calls = <<>> /\ exc = "none"
  /\ Changed(ControlValues(widgets, objs[mm_values]), objs[mm_values])
  /\ ~mm_locked

\* C17: in every turn run while the lock is on, the mental model used for
\* the prompt and written to the log equals the values the nine controls
\* show when the message is submitted, control edits made after the lock
\* transition included.
LockedTurnUsesShownControls ==
  (mm_locked /\ pc \in {"assumptions", "respond"}) =>
    ~Changed(ControlValues(widgets, objs[mm_values]), objs[mm_vals])

\* no turn is being executed
BetweenTurns == pc \in {"idle", "chat_input", "rerun"}

\* C18: between turns the turn log has turn_index entries and its k-th
\* entry has turn_index k, whatever turns failed before.
LogMatchesTurnIndex ==
  BetweenTurns =>
    /\ Len(turn_logs) = turn_index
    /\ \A k \in 1..Len(turn_logs) : turn_logs[k].turn_index = k

\* a turn was completed and logged, and the next one failed at response
\* generation
FailedTurnAfterLoggedTurn ==
  /\ pc = "idle" /\ exc = "response"
  /\ turn_index = 1
  /\ Len(turn_logs) = 1
  /\ Len(messages) = 3

\* messages only grows at its end
MessagesAppendOnly ==
  [][/\ Len(messages') >= Len(messages)
     /\ SubSeq(messages', 1, Len(messages)) = messages]_vars

\* C19 as stated: messages is append-only and, between turns, alternates
\* user, assistant, ... from a user message, with length 2 * turn_index;
\* assumptions_history has one entry per completed turn, the k-th with
\* turn_index k; also after turns whose response call raised.
MessagesAlternateHistoryPerCompletedTurn ==
  /\ MessagesAppendOnly
  /\ [](BetweenTurns =>
          /\ Len(messages) = 2 * turn_index
          /\ \A i \in 1..Len(messages) :
               messages[i].role = IF i % 2 = 1 THEN "user" ELSE "assistant"
          /\ Len(assumptions_history) = turn_index
          /\ \A k \in 1..Len(assumptions_history) :
               assumptions_history[k].turn_index = k)

\* C19, amended: messages is append-only; between turns it holds one user
\* message per turn that passed the credential check and one assistant
\* message per completed turn, each assistant message directly after a user
\* message, so it starts with a user message and its length is turn_index
\* plus the length of assumptions_history; assumptions_history holds one
\* entry per turn that passed the credential check, completed or not, with
\* turn_index values that never decrease, lie in 1..turn_index + 1 and
\* include each of 1..turn_index.
MessagesAndHistoryCountAttempts ==
  /\ MessagesAppendOnly
  /\ [](BetweenTurns =>
          /\ Len(messages) = turn_index + Len(assumptions_history)
          /\ Cardinality({i \in 1..Len(messages) : messages[i].role = "assistant"})
               = turn_index
          /\ \A i \in 1..Len(messages) :
               messages[i].role = "assistant" => i > 1 /\ messages[i - 1].role = "user"
          /\ \A k \in 1..Len(assumptions_history) :
               /\ assumptions_history[k].turn_index \in 1..(turn_index + 1)
               /\ k > 1 => assumptions_history[k - 1].turn_index
                             <= assumptions_history[k].turn_index
          /\ \A t \in 1..turn_index :
               \E k \in 1..Len(assumptions_history) :
                 assumptions_history[k].turn_index = t)

\* the first turn failed at response generation and the second attempt
\* completed: two user messages in a row and two history entries for turn 1
CompletedAfterFailedAttempt ==
  /\ pc = "idle"
  /\ turn_index = 1
  /\ Len(messages) = 3
  /\ messages[1].role = "user" /\ messages[2].role = "user"
  /\ messages[3].role = "assistant"
  /\ Len(assumptions_history) = 2
  /\ assumptions_history[1].turn_index = 1
  /\ assumptions_history[2].turn_index = 1

\* C20: every log entry is consistent with the branch that produced it:
\* its source is inferred_first_turn exactly when its turn_index is 1 and
\* user_locked exactly when its mm_locked field is true; so entry 1 has
\* mm_locked false, and after an entry tagged user_locked every later entry
\* is tagged user_locked and has the identical mental model.
LogEntriesConsistent ==
  \A i \in 1..Len(turn_logs) :
    /\ turn_logs[i].mental_model_source = "inferred_first_turn"
         <=> turn_logs[i].turn_index = 1
    /\ turn_logs[i].mental_model_source = "user_locked" <=> turn_logs[i].mm_locked
    /\ turn_logs[i].mental_model_source \in
         {"inferred_first_turn", "inferred_unlocked", "user_locked"}
    /\ turn_logs[i].turn_index = 1 => ~turn_logs[i].mm_locked
    /\ turn_logs[i].mental_model_source = "user_locked" =>
         \A j \in (i + 1)..Len(turn_logs) :
           /\ turn_logs[j].mental_model_source = "user_locked"
           /\ turn_logs[j].mental_model = turn_logs[i].mental_model
           /\ objs[turn_logs[j].mental_model] = objs[turn_logs[i].mental_model]

\* three turns are logged: the first inferred, the second and the third
\* run under the lock
TwoLockedTurnsLogged ==
  /\ Len(turn_logs) = 3
  /\ turn_logs[1].mental_model_source = "inferred_first_turn"
  /\ turn_logs[2].mental_model_source = "user_locked"
  /\ turn_logs[3].mm_locked
  /\ turn_logs[3].mental_model /= turn_logs[1].mental_model

====
